---------------------------- MODULE Spec2Model ----------------------------
(* A model of the build-time tooling of risc0:                              *)
(*   - risc0/circuit/recursion/build.rs   download_zkr (the artifact cache) *)
(*   - xtask/src/bootstrap_groth16.rs     BootstrapGroth16::run,            *)
(*                                        bootstrap_verifying_key,          *)
(*                                        bootstrap_control_id,             *)
(*                                        bootstrap_test_receipt,           *)
(*                                        split_digest, generate_receipt    *)
(* Texts are sequences of one-character strings, byte strings are sequences *)
(* of numbers 0..255.                                                       *)
EXTENDS Integers, Sequences, FiniteSets, TLC

VARIABLES
    \* ---- build.rs: the file system, the environment and download_zkr ----
    DOCS_RS,        \* whether env::var("DOCS_RS") is Ok
    out_file,       \* the file at out_path: NoFile or its content
    src_file,       \* the file at src_path: NoFile or its content
    remote,         \* what the artifact URL serves: a content, or Unreachable
    zkr_pc,         \* position of download_zkr
    zkr_path,       \* how the current call returned
    net_access,     \* downloads started by the current call
    src_read,       \* whether the current call read (or copied) src_path
    removed,        \* files removed by the current call
    out_read,       \* whether the current call read out_path
    zkr_calls,      \* calls of download_zkr so far
    out0,           \* out_file when the current call started
    src0,           \* src_file when the current call started
    prev_call,      \* the previous call, when nothing changed since: path, out
    \* ---- xtask: bootstrap_test_receipt and generate_receipt ----
    pc,             \* position of the xtask process
    panic_msg,      \* the message of the panic that ended it, if any
    RISC0_WORK_DIR, \* whether env::var("RISC0_WORK_DIR") is Ok
    tmp_dir,        \* the directory made by tempdir(): "none", "exists", "removed"
    work_dir,       \* the directory generate_receipt works in: "tmp", "override"
    touched,        \* <<operation, directory>> for every use of a working directory
    log,            \* the stages entered, in order
    results,        \* the result of every stage entered: "ok" or "failed"
    segments,       \* the number of segments of the session
    journal,        \* session.journal: <<>> is None, <<bytes>> is Some(bytes)
    claim_post,     \* the post-state digest of the lifted receipt's claim
    docker_status,  \* how the prover process ended
    output_json,    \* output.json in the working directory: <<>> or <<document>>
    output_read,    \* whether output.json has been read
    raw_proof,      \* the parsed document
    groth16_seal,   \* the decoded groups a, b and c
    receipt,        \* what generate_receipt returned: <<>> or <<receipt>>
    test_receipt_file, \* TestReceipt.sol as written by this run: <<>> or <<text>>
    \* ---- xtask: bootstrap_verifying_key ----
    sol_file,       \* the text of Groth16Verifier.sol
    rust_file,      \* the text of groth16.rs
    solidity_code,  \* the Solidity text as read
    rust_code,      \* the Rust text, as rewritten so far
    rust_before,    \* rust_code before the last turn of the loop
    rust0,          \* the Rust text as read
    vk_i,           \* the pair the loop is at
    printed,        \* the lines printed
    \* ---- xtask: bootstrap_control_id ----
    ALLOWED_IDS_ROOT, \* the hex text of the root of the allowed control ids
    control_id,     \* the two halves split_digest returned: <<>> or <<id0, id1>>
    control_id_file, \* ControlID.sol as written by this run: <<>> or <<text>>
    \* ---- xtask: BootstrapGroth16::run ----
    calls,          \* the entry points called, in order
    fmt_runs        \* the formatter runs: the file and how the process ended

zkrVars == <<DOCS_RS, out_file, src_file, remote, zkr_pc, zkr_path, net_access,
             src_read, out_read, removed, zkr_calls, out0, src0, prev_call>>

grVars == <<pc, panic_msg, RISC0_WORK_DIR, tmp_dir, work_dir, touched, log,
            results, segments, journal, claim_post, docker_status, output_json,
            output_read, raw_proof, groth16_seal, receipt, test_receipt_file>>

vkVars == <<sol_file, rust_file, solidity_code, rust_code, rust_before, rust0,
            vk_i, printed>>

ciVars == <<ALLOWED_IDS_ROOT, control_id, control_id_file>>

runVars == <<calls, fmt_runs>>

vars == <<zkrVars, grVars, vkVars, ciVars, runVars>>

-----------------------------------------------------------------------------
(* Bounds of the model.                                                     *)

\* file contents are 0..MaxContent; 0 is the published artifact
MaxContent == 2
\* calls of download_zkr in one behaviour
MaxCalls == 2
\* the executor yields 0..MaxSegments segments
MaxSegments == 2
\* group 1 of the prover's output holds at most MaxGroupLen tokens
MaxGroupLen == 2
\* the first NumConstants of the 24 pairs of constants are synchronised
NumConstants == 2
\* a digest is DigestWords words long
DigestWords == 1

-----------------------------------------------------------------------------
(* Bytes and hexadecimal text.                                              *)

HexDigits == <<"0", "1", "2", "3", "4", "5", "6", "7",
               "8", "9", "a", "b", "c", "d", "e", "f">>

\* hex::encode: two lowercase digits per byte, high nibble first
RECURSIVE hex_encode(_)
hex_encode(bytes) ==
    IF bytes = <<>> THEN <<>>
    ELSE <<HexDigits[(Head(bytes) \div 16) + 1], HexDigits[(Head(bytes) % 16) + 1]>>
         \o hex_encode(Tail(bytes))

\* the value of one hex digit, -1 when the character is none (hex accepts both cases)
HexVal(c) ==
    CASE c \in {"0"} -> 0 [] c \in {"1"} -> 1 [] c \in {"2"} -> 2 [] c \in {"3"} -> 3
      [] c \in {"4"} -> 4 [] c \in {"5"} -> 5 [] c \in {"6"} -> 6 [] c \in {"7"} -> 7
      [] c \in {"8"} -> 8 [] c \in {"9"} -> 9
      [] c \in {"a", "A"} -> 10 [] c \in {"b", "B"} -> 11 [] c \in {"c", "C"} -> 12
      [] c \in {"d", "D"} -> 13 [] c \in {"e", "E"} -> 14 [] c \in {"f", "F"} -> 15
      [] OTHER -> -1

\* Err(FromHexError): no byte string holds -1
DecodeError == <<-1>>

RECURSIVE hex_pairs(_)
hex_pairs(s) ==
    IF s = <<>> THEN <<>>
    ELSE LET hi == HexVal(s[1])
             lo == HexVal(s[2])
             rest == hex_pairs(SubSeq(s, 3, Len(s)))
         IN  IF hi < 0 \/ lo < 0 \/ rest = DecodeError THEN DecodeError
             ELSE <<16 * hi + lo>> \o rest

\* hex::decode: an odd length or a character that is no hex digit is an error
hex_decode(s) ==
    IF Len(s) % 2 # 0 THEN DecodeError ELSE hex_pairs(s)

-----------------------------------------------------------------------------
(* build.rs: download_zkr.                                                  *)

\* path.exists() is false: no content is negative
NoFile == -1
\* the transfer fails
Unreachable == -2
NoCall == [path |-> "none", out |-> NoFile]
Contents == 0 .. MaxContent

\* build.rs:49, cut to the first two bytes of the digest
SHA256_HASH == <<"a", "e", "5", "7">>

\* Sha256::digest, cut to two bytes: injective on Contents, content 0 is the
\* artifact whose digest is SHA256_HASH
Sha256(data) == <<(174 + 37 * data) % 256, (87 + 101 * data) % 256>>

\* build.rs:51-54 (the read has succeeded)
check_sha2_always(data) == TRUE
check_sha2_never(data) == FALSE
check_sha2(data) == hex_encode(Sha256(data)) = SHA256_HASH

\* build.rs:88-90: the downloader's verification of the fetched bytes
verify_with_digest(data) == Sha256(data) = hex_decode(SHA256_HASH)

ZkrIdle == zkr_pc \in {"idle", "returned", "panicked"}

ZkrInit ==
    /\ DOCS_RS \in BOOLEAN
    /\ out_file \in Contents \cup {NoFile}
    /\ src_file \in Contents \cup {NoFile}
    /\ remote \in Contents \cup {Unreachable}
    /\ zkr_pc = "idle"
    /\ zkr_path = "none"
    /\ net_access = 0
    /\ src_read = FALSE
    /\ out_read = FALSE
    /\ removed = 0
    /\ zkr_calls = 0
    /\ out0 = NoFile
    /\ src0 = NoFile
    /\ prev_call = NoCall

\* between two builds the environment, the files and the server may change
EnvChange ==
    /\ ZkrIdle
    /\ zkr_calls < MaxCalls
    /\ DOCS_RS' \in BOOLEAN
    /\ out_file' \in Contents \cup {NoFile}
    /\ src_file' \in Contents \cup {NoFile}
    /\ remote' \in Contents \cup {Unreachable}
    /\ <<DOCS_RS', out_file', src_file', remote'>> # <<DOCS_RS, out_file, src_file, remote>>
    /\ zkr_pc' = "idle"
    /\ zkr_path' = "none"
    /\ prev_call' = NoCall
    /\ UNCHANGED <<net_access, src_read, out_read, removed, zkr_calls, out0, src0>>
    /\ UNCHANGED <<grVars, vkVars, ciVars, runVars>>

\* build.rs:33: main calls download_zkr
download_zkr ==
    /\ ZkrIdle
    /\ zkr_calls < MaxCalls
    /\ zkr_calls' = zkr_calls + 1
    /\ zkr_pc' = "docs_rs"
    /\ prev_call' = IF zkr_pc = "returned"
                    THEN [path |-> zkr_path, out |-> out_file]
                    ELSE NoCall
    /\ zkr_path' = "none"
    /\ net_access' = 0
    /\ src_read' = FALSE
    /\ out_read' = FALSE
    /\ removed' = 0
    /\ out0' = out_file
    /\ src0' = src_file
    /\ UNCHANGED <<DOCS_RS, out_file, src_file, remote>>
    /\ UNCHANGED <<grVars, vkVars, ciVars, runVars>>

\* a variant that does not look at DOCS_RS
zkr_docs_rs_ignored ==
    /\ zkr_pc = "docs_rs"
    /\ zkr_pc' = "cache"
    /\ UNCHANGED <<DOCS_RS, out_file, src_file, remote, zkr_path, net_access,
                   src_read, out_read, removed, zkr_calls, out0, src0, prev_call>>
    /\ UNCHANGED <<grVars, vkVars, ciVars, runVars>>

\* build.rs:56-58: env::var is Ok when the variable is set (to Unicode text)
zkr_docs_rs ==
    /\ zkr_pc = "docs_rs"
    /\ IF DOCS_RS
       THEN zkr_pc' = "returned" /\ zkr_path' = "skip"
       ELSE zkr_pc' = "cache" /\ zkr_path' = zkr_path
    /\ UNCHANGED <<DOCS_RS, out_file, src_file, remote, net_access, src_read,
                   out_read, removed, zkr_calls, out0, src0, prev_call>>
    /\ UNCHANGED <<grVars, vkVars, ciVars, runVars>>

\* build.rs:68-73; fs::read and fs::remove_file may fail, and unwrap panics
zkr_cache ==
    /\ zkr_pc = "cache"
    /\ out_read' = (out_read \/ out_file # NoFile)
    /\ \E io_ok \in BOOLEAN :
         IF out_file = NoFile
         THEN zkr_pc' = "local" /\ UNCHANGED <<out_file, removed, zkr_path>>
         ELSE IF ~io_ok
         THEN zkr_pc' = "panicked" /\ UNCHANGED <<out_file, removed, zkr_path>>
         ELSE IF check_sha2(out_file)
         THEN zkr_pc' = "returned" /\ zkr_path' = "reuse"
              /\ UNCHANGED <<out_file, removed>>
         ELSE \/ zkr_pc' = "local" /\ out_file' = NoFile /\ removed' = removed + 1
                 /\ UNCHANGED zkr_path
              \/ zkr_pc' = "panicked" /\ UNCHANGED <<out_file, removed, zkr_path>>
    /\ UNCHANGED <<DOCS_RS, src_file, remote, net_access, src_read, zkr_calls,
                   out0, src0, prev_call>>
    /\ UNCHANGED <<grVars, vkVars, ciVars, runVars>>

\* a variant that never looks at src_path
zkr_local_no_src ==
    /\ zkr_pc = "local"
    /\ zkr_pc' = "download"
    /\ UNCHANGED <<DOCS_RS, out_file, src_file, remote, zkr_path, net_access,
                   src_read, out_read, removed, zkr_calls, out0, src0, prev_call>>
    /\ UNCHANGED <<grVars, vkVars, ciVars, runVars>>

\* build.rs:75-78; a failed fs::copy may leave nothing or a truncated file
zkr_local ==
    /\ zkr_pc = "local"
    /\ IF src_file = NoFile
       THEN zkr_pc' = "download" /\ UNCHANGED <<out_file, src_read, zkr_path>>
       ELSE /\ src_read' = TRUE
            /\ \E io_ok \in BOOLEAN :
                 IF ~io_ok
                 THEN zkr_pc' = "panicked" /\ UNCHANGED <<out_file, zkr_path>>
                 ELSE IF check_sha2(src_file)
                 THEN \/ zkr_pc' = "returned" /\ zkr_path' = "copy"
                         /\ out_file' = src_file
                      \/ zkr_pc' = "panicked" /\ zkr_path' = zkr_path
                         /\ out_file' \in (Contents \ {src_file}) \cup {NoFile}
                 ELSE zkr_pc' = "download" /\ UNCHANGED <<out_file, zkr_path>>
    /\ UNCHANGED <<DOCS_RS, src_file, remote, net_access, out_read, removed,
                   zkr_calls, out0, src0, prev_call>>
    /\ UNCHANGED <<grVars, vkVars, ciVars, runVars>>

\* a variant that tries a failed download a second time
zkr_download_retry ==
    /\ zkr_pc = "download"
    /\ net_access' = net_access + 1
    /\ IF remote # Unreachable /\ verify_with_digest(remote)
       THEN zkr_pc' = "returned" /\ zkr_path' = "download" /\ out_file' = remote
       ELSE /\ zkr_pc' = IF net_access < 1 THEN "download" ELSE "panicked"
            /\ UNCHANGED <<out_file, zkr_path>>
    /\ UNCHANGED <<DOCS_RS, src_file, remote, src_read, out_read, removed,
                   zkr_calls, out0, src0, prev_call>>
    /\ UNCHANGED <<grVars, vkVars, ciVars, runVars>>

\* build.rs:80-95: one download into out_dir/FILENAME, verified by the
\* downloader; a failed transfer or verification is an Err, and unwrap panics
zkr_download ==
    /\ zkr_pc = "download"
    /\ net_access' = net_access + 1
    /\ IF remote = Unreachable
       THEN zkr_pc' = "panicked" /\ UNCHANGED <<out_file, zkr_path>>
       ELSE /\ out_file' = remote
            /\ IF verify_with_digest(remote)
               THEN zkr_pc' = "returned" /\ zkr_path' = "download"
               ELSE zkr_pc' = "panicked" /\ zkr_path' = zkr_path
    /\ UNCHANGED <<DOCS_RS, src_file, remote, src_read, out_read, removed,
                   zkr_calls, out0, src0, prev_call>>
    /\ UNCHANGED <<grVars, vkVars, ciVars, runVars>>

NextZkr ==
    \/ EnvChange
    \/ download_zkr
    \/ zkr_docs_rs
    \/ zkr_cache
    \/ zkr_local
    \/ zkr_download

-----------------------------------------------------------------------------
(* xtask: generate_receipt and bootstrap_test_receipt.                      *)

\* the stages of generate_receipt, by the message each logs when it starts
\* ("read" logs the text it read)
STAGES == <<"execute", "prove", "lift", "identity_p254", "seal-to-json",
            "risc0-groth16-prover", "read", "decode a", "decode b", "decode c",
            "Groth16Seal">>

StageIndex(stage) == CHOOSE i \in 1 .. Len(STAGES) : STAGES[i] = stage

\* what follows a stage when nothing stops the function
following(stage) ==
    IF StageIndex(stage) = Len(STAGES) THEN "tr_write"
    ELSE STAGES[StageIndex(stage) + 1]

\* a variant in which a failed step does not stop the function
after_ignoring(stage, ok) == following(stage)

\* every fallible step is unwrapped, expected or asserted: a failure panics,
\* and nothing catches the panic
after(stage, ok) == IF ok THEN following(stage) ELSE "panicked"

\* the panic messages
MsgUnwrap == "called Result::unwrap() on an Err value"
MsgTmpdir == "Failed to create tmpdir"
MsgSegments == "assertion failed: segments.len() is not 1"
MsgDocker == "docker returned failure exit code"
MsgSlice == "byte index 2 is out of bounds"
MsgDecodeA == "Failed to decode snark a values"
MsgDecodeB == "Failed to decode snark b values"
MsgDecodeC == "Failed to decode snark c values"
MsgWrite == "failed to save changes to TestReceipt.sol"
MsgFormat == "failed to format"
MsgVkRead == "failed to read"
MsgVkWrite == "failed to save changes to groth16.rs"
K_not_found == <<" ", "n", "o", "t", " ", "f", "o", "u", "n", "d">>

\* how a formatter process (rustfmt, forge fmt) may end
FmtStatuses == {"exit 0", "exit 1", "spawn failed"}

\* bootstrap_groth16.rs:123-126, 144-148, 178-182: Command::status() is Err
\* only when the process could not be started, and expect() looks at nothing
\* else: the ExitStatus is dropped
fmt_expect(status) == status # "spawn failed"

\* one run of a formatter over a file
FmtRun(file, status) == [file |-> file, status |-> status]

\* one stage of generate_receipt: it is logged, it succeeds or fails, and the
\* function goes on or panics.  The TempDir is dropped when the function
\* returns; when a panic unwinds it is dropped too, when a panic aborts it is
\* left behind.
Stage(stage, ok, msg) ==
    /\ pc = stage
    /\ log' = Append(log, stage)
    /\ results' = Append(results, IF ok THEN "ok" ELSE "failed")
    /\ pc' = after(stage, ok)
    /\ panic_msg' = IF ok THEN panic_msg ELSE msg
    /\ tmp_dir' \in IF ~ok THEN {"removed", "exists"}
                    ELSE IF following(stage) = "tr_write" THEN {"removed"}
                    ELSE {tmp_dir}

\* the tokens the prover's output is made of
Tok_0x1f == <<"0", "x", "1", "f">>
Tok_0xA0 == <<"0", "x", "A", "0">>
Tok_0xzz == <<"0", "x", "z", "z">>
Tok_zz12 == <<"z", "z", "1", "2">>
Tok_0 == <<"0">>
Tok_0x1 == <<"0", "x", "1">>
Tokens == {Tok_0x1f, Tok_0xA0, Tok_0xzz, Tok_zz12, Tok_0, Tok_0x1}

SeqsUpTo(S, n) == UNION {[1 .. k -> S] : k \in 0 .. n}

GroupsA == SeqsUpTo(Tokens, MaxGroupLen)
GroupsB == {<<>>, <<<<Tok_0x1f, Tok_0xA0>>>>,
            <<<<Tok_0x1f, Tok_0xA0>>, <<Tok_0xA0, Tok_0x1f>>>>,
            <<<<Tok_0x1f, Tok_0xzz>>>>}
GroupsC == {<<Tok_0x1f>>, <<Tok_0xA0, Tok_0x1f>>, <<Tok_0x1>>}
GroupsD == {<<>>, <<Tok_0x1f>>}

\* output.json, as the prover may leave it: the text is a list of `ngroups`
\* comma-separated groups, the first four of them a, b, c and d; `wellformed`
\* says that "[" + text + "]" is JSON, `typed` that a, c and d are lists of
\* strings and b a list of lists of strings
NoGroups == [a |-> <<>>, b |-> <<>>, c |-> <<>>, d |-> <<>>]
Documents ==
    {[wellformed |-> w, typed |-> FALSE, ngroups |-> 4, groups |-> NoGroups] :
        w \in BOOLEAN}
    \cup
    {[wellformed |-> TRUE, typed |-> TRUE, ngroups |-> n,
      groups |-> [a |-> ga, b |-> gb, c |-> gc, d |-> <<>>]] :
        n \in {3, 5}, ga \in GroupsA, gb \in GroupsB, gc \in GroupsC}
    \cup
    {[wellformed |-> TRUE, typed |-> TRUE, ngroups |-> 4,
      groups |-> [a |-> ga, b |-> gb, c |-> gc, d |-> gd]] :
        ga \in GroupsA, gb \in GroupsB, gc \in GroupsC, gd \in GroupsD}

SampleDocument ==
    [wellformed |-> TRUE, typed |-> TRUE, ngroups |-> 4,
     groups |-> [a |-> <<Tok_0x1f>>, b |-> <<<<Tok_0x1f, Tok_0xA0>>>>,
                 c |-> <<Tok_0x1f>>, d |-> <<>>]]

\* how `docker run` may end, and what it then leaves in the working directory
Statuses == {"exit 0", "exit 1", "signal", "spawn failed"}
ProverOutputs(status) ==
    CASE status = "exit 0" -> {<<>>} \cup {<<d>> : d \in Documents}
      [] status = "spawn failed" -> {<<>>}
      [] OTHER -> {<<>>, <<SampleDocument>>}

\* bootstrap_groth16.rs:253, ExitStatus::success
status_any(status) == TRUE
status_success(status) == status = "exit 0"

\* bootstrap_groth16.rs:260-261: serde_json reads a tuple of four from a list
\* of exactly four values of the right types
from_str_three(doc) == doc.wellformed /\ doc.typed /\ doc.ngroups = 3
from_str(doc) == doc.wellformed /\ doc.typed /\ doc.ngroups = 4

\* &x[2..] panics on a string shorter than two bytes
SlicePanic == <<-2>>

\* a variant that decodes the whole token, prefix included
decode_token_unstripped(x) == hex_decode(x)

\* bootstrap_groth16.rs:267: hex::decode(&x[2..])
decode_token(x) ==
    IF Len(x) < 2 THEN SlicePanic ELSE hex_decode(SubSeq(x, 3, Len(x)))

\* collect::<Result<Vec<_>, _>>(): the tokens are decoded in order up to the
\* first error
RECURSIVE decode_vec(_)
decode_vec(g) ==
    IF g = <<>> THEN [status |-> "ok", val |-> <<>>]
    ELSE LET h == decode_token(Head(g))
         IN  IF h = SlicePanic THEN [status |-> "slice", val |-> <<>>]
             ELSE IF h = DecodeError THEN [status |-> "err", val |-> <<>>]
             ELSE LET r == decode_vec(Tail(g))
                  IN  IF r.status = "ok"
                      THEN [status |-> "ok", val |-> <<h>> \o r.val]
                      ELSE r

\* bootstrap_groth16.rs:272-281: the same, one level down
RECURSIVE decode_nested(_)
decode_nested(g) ==
    IF g = <<>> THEN [status |-> "ok", val |-> <<>>]
    ELSE LET h == decode_vec(Head(g))
         IN  IF h.status # "ok" THEN h
             ELSE LET r == decode_nested(Tail(g))
                  IN  IF r.status = "ok"
                      THEN [status |-> "ok", val |-> <<h.val>> \o r.val]
                      ELSE r

RECURSIVE Flatten(_)
Flatten(ss) == IF ss = <<>> THEN <<>> ELSE Head(ss) \o Flatten(Tail(ss))

\* Groth16Seal::to_vec: the bytes of a, then of b, then of c
to_vec(seal) == Flatten(seal.a) \o Flatten(Flatten(seal.b)) \o Flatten(seal.c)

\* the values the engine may produce, digests cut to two bytes
Journals == {<<>>, <<<<>>>>, <<<<1, 2>>>>}
PostDigests == {<<163, 4>>, <<0, 255>>}
MULTI_TEST_ID == <<171, 205>>

\* nothing of generate_receipt has run
GrFresh ==
    /\ panic_msg = "none"
    /\ tmp_dir = "none"
    /\ work_dir = "none"
    /\ touched = {}
    /\ log = <<>>
    /\ results = <<>>
    /\ segments = 0
    /\ journal = <<>>
    /\ claim_post = <<>>
    /\ docker_status = "not run"
    /\ output_json = <<>>
    /\ output_read = FALSE
    /\ raw_proof = NoGroups
    /\ groth16_seal = [a |-> <<>>, b |-> <<>>, c |-> <<>>]
    /\ receipt = <<>>
    /\ test_receipt_file = <<>>

GrInit ==
    /\ pc = "tr_call"
    /\ RISC0_WORK_DIR \in BOOLEAN
    /\ GrFresh

\* bootstrap_groth16.rs:151-156: bootstrap_test_receipt calls generate_receipt
bootstrap_test_receipt ==
    /\ pc = "tr_call"
    /\ pc' = "gr_start"
    /\ calls' = Append(calls, "bootstrap_test_receipt")
    /\ UNCHANGED <<panic_msg, RISC0_WORK_DIR, tmp_dir, work_dir, touched, log,
                   results, segments, journal, claim_post, docker_status,
                   output_json, output_read, raw_proof, groth16_seal, receipt,
                   test_receipt_file>>
    /\ UNCHANGED <<zkrVars, vkVars, ciVars, fmt_runs>>

\* a variant that always works in the temporary directory
work_dir_tmp(override) == "tmp"

\* bootstrap_groth16.rs:200-204: the value of RISC0_WORK_DIR when env::var is
\* Ok, the temporary directory otherwise
work_dir_of(override) == IF override THEN "override" ELSE "tmp"

\* bootstrap_groth16.rs:199-210: the temporary directory is made whether or
\* not it is going to be used
gr_start ==
    /\ pc = "gr_start"
    /\ \E ok \in BOOLEAN :
         IF ok
         THEN /\ tmp_dir' = "exists"
              /\ work_dir' = work_dir_of(RISC0_WORK_DIR)
              /\ pc' = STAGES[1]
              /\ UNCHANGED panic_msg
         ELSE /\ pc' = "panicked"
              /\ panic_msg' = MsgTmpdir
              /\ UNCHANGED <<tmp_dir, work_dir>>
    /\ UNCHANGED <<RISC0_WORK_DIR, touched, log, results, segments, journal,
                   claim_post, docker_status, output_json, output_read,
                   raw_proof, groth16_seal, receipt, test_receipt_file>>
    /\ UNCHANGED <<zkrVars, vkVars, ciVars, runVars>>

\* a variant that asks for a first segment only
assert_segments_some(n) == n >= 1

\* bootstrap_groth16.rs:216: assert_eq!(segments.len(), 1)
assert_segments(n) == n = 1

\* bootstrap_groth16.rs:212-216: the executor runs, the session is resolved
\* and exactly one segment is asserted
gr_execute ==
    /\ pc = "execute"
    /\ \E ran \in BOOLEAN, n \in 0 .. MaxSegments, j \in Journals :
         /\ segments' = IF ran THEN n ELSE segments
         /\ journal' = IF ran THEN j ELSE journal
         /\ Stage("execute", ran /\ assert_segments(n),
                  IF ran THEN MsgSegments ELSE MsgUnwrap)
    /\ UNCHANGED <<RISC0_WORK_DIR, work_dir, touched, claim_post, docker_status,
                   output_json, output_read, raw_proof, groth16_seal, receipt,
                   test_receipt_file>>
    /\ UNCHANGED <<zkrVars, vkVars, ciVars, runVars>>

\* bootstrap_groth16.rs:218-222
gr_prove ==
    /\ pc = "prove"
    /\ \E ok \in BOOLEAN : Stage("prove", ok, MsgUnwrap)
    /\ UNCHANGED <<RISC0_WORK_DIR, work_dir, touched, segments, journal,
                   claim_post, docker_status, output_json, output_read,
                   raw_proof, groth16_seal, receipt, test_receipt_file>>
    /\ UNCHANGED <<zkrVars, vkVars, ciVars, runVars>>

\* bootstrap_groth16.rs:224-226: lift, then verify_integrity
gr_lift ==
    /\ pc = "lift"
    /\ \E lifted \in BOOLEAN, verified \in BOOLEAN, post \in PostDigests :
         /\ claim_post' = IF lifted THEN post ELSE claim_post
         /\ Stage("lift", lifted /\ verified, MsgUnwrap)
    /\ UNCHANGED <<RISC0_WORK_DIR, work_dir, touched, segments, journal,
                   docker_status, output_json, output_read, raw_proof,
                   groth16_seal, receipt, test_receipt_file>>
    /\ UNCHANGED <<zkrVars, vkVars, ciVars, runVars>>

\* bootstrap_groth16.rs:228-235: identity_p254, seal.r0 is written, and the
\* session's journal is unwrapped
gr_identity_p254 ==
    /\ pc = "identity_p254"
    /\ \E folded \in BOOLEAN, written \in BOOLEAN :
         /\ touched' = IF folded /\ written
                       THEN touched \cup {<<"write seal.r0", work_dir>>}
                       ELSE touched
         /\ Stage("identity_p254", folded /\ written /\ journal # <<>>, MsgUnwrap)
    /\ UNCHANGED <<RISC0_WORK_DIR, work_dir, segments, journal, claim_post,
                   docker_status, output_json, output_read, raw_proof,
                   groth16_seal, receipt, test_receipt_file>>
    /\ UNCHANGED <<zkrVars, vkVars, ciVars, runVars>>

\* bootstrap_groth16.rs:237-242: the witness document input.json
gr_seal_to_json ==
    /\ pc = "seal-to-json"
    /\ \E created \in BOOLEAN, converted \in BOOLEAN :
         /\ touched' = IF created
                       THEN touched \cup {<<"write input.json", work_dir>>}
                       ELSE touched
         /\ Stage("seal-to-json", created /\ converted, MsgUnwrap)
    /\ UNCHANGED <<RISC0_WORK_DIR, work_dir, segments, journal, claim_post,
                   docker_status, output_json, output_read, raw_proof,
                   groth16_seal, receipt, test_receipt_file>>
    /\ UNCHANGED <<zkrVars, vkVars, ciVars, runVars>>

\* bootstrap_groth16.rs:244-255: the prover runs over the working directory
\* and its exit status is checked
gr_docker ==
    /\ pc = "risc0-groth16-prover"
    /\ \E status \in Statuses :
         \E out \in ProverOutputs(status) :
           /\ docker_status' = status
           /\ output_json' = out
           /\ touched' = IF status = "spawn failed" THEN touched
                         ELSE touched \cup {<<"docker run", work_dir>>}
           /\ Stage("risc0-groth16-prover",
                    status # "spawn failed" /\ status_success(status),
                    IF status = "spawn failed" THEN MsgUnwrap ELSE MsgDocker)
    /\ UNCHANGED <<RISC0_WORK_DIR, work_dir, segments, journal, claim_post,
                   output_read, raw_proof, groth16_seal, receipt,
                   test_receipt_file>>
    /\ UNCHANGED <<zkrVars, vkVars, ciVars, runVars>>

\* bootstrap_groth16.rs:257-261: output.json is read, wrapped in brackets and
\* parsed
gr_read ==
    /\ pc = "read"
    /\ LET found == output_json # <<>>
           parsed == found /\ from_str(output_json[1])
       IN  /\ output_read' = found
           /\ touched' = touched \cup {<<"read output.json", work_dir>>}
           /\ raw_proof' = IF parsed THEN output_json[1].groups ELSE raw_proof
           /\ Stage("read", parsed, MsgUnwrap)
    /\ UNCHANGED <<RISC0_WORK_DIR, work_dir, segments, journal, claim_post,
                   docker_status, output_json, groth16_seal, receipt,
                   test_receipt_file>>
    /\ UNCHANGED <<zkrVars, vkVars, ciVars, runVars>>

\* bootstrap_groth16.rs:263-269
gr_decode_a ==
    /\ pc = "decode a"
    /\ LET r == decode_vec(raw_proof.a)
       IN  /\ groth16_seal' = IF r.status = "ok"
                              THEN [groth16_seal EXCEPT !.a = r.val]
                              ELSE groth16_seal
           /\ Stage("decode a", r.status = "ok",
                    IF r.status = "slice" THEN MsgSlice ELSE MsgDecodeA)
    /\ UNCHANGED <<RISC0_WORK_DIR, work_dir, touched, segments, journal,
                   claim_post, docker_status, output_json, output_read,
                   raw_proof, receipt, test_receipt_file>>
    /\ UNCHANGED <<zkrVars, vkVars, ciVars, runVars>>

\* bootstrap_groth16.rs:271-282
gr_decode_b ==
    /\ pc = "decode b"
    /\ LET r == decode_nested(raw_proof.b)
       IN  /\ groth16_seal' = IF r.status = "ok"
                              THEN [groth16_seal EXCEPT !.b = r.val]
                              ELSE groth16_seal
           /\ Stage("decode b", r.status = "ok",
                    IF r.status = "slice" THEN MsgSlice ELSE MsgDecodeB)
    /\ UNCHANGED <<RISC0_WORK_DIR, work_dir, touched, segments, journal,
                   claim_post, docker_status, output_json, output_read,
                   raw_proof, receipt, test_receipt_file>>
    /\ UNCHANGED <<zkrVars, vkVars, ciVars, runVars>>

\* bootstrap_groth16.rs:284-290
gr_decode_c ==
    /\ pc = "decode c"
    /\ LET r == decode_vec(raw_proof.c)
       IN  /\ groth16_seal' = IF r.status = "ok"
                              THEN [groth16_seal EXCEPT !.c = r.val]
                              ELSE groth16_seal
           /\ Stage("decode c", r.status = "ok",
                    IF r.status = "slice" THEN MsgSlice ELSE MsgDecodeC)
    /\ UNCHANGED <<RISC0_WORK_DIR, work_dir, touched, segments, journal,
                   claim_post, docker_status, output_json, output_read,
                   raw_proof, receipt, test_receipt_file>>
    /\ UNCHANGED <<zkrVars, vkVars, ciVars, runVars>>

\* bootstrap_groth16.rs:292-302: the receipt is assembled and returned
gr_assemble ==
    /\ pc = "Groth16Seal"
    /\ receipt' = <<[seal |-> to_vec(groth16_seal), claim_post |-> claim_post,
                     journal |-> journal[1]]>>
    /\ Stage("Groth16Seal", TRUE, MsgUnwrap)
    /\ UNCHANGED <<RISC0_WORK_DIR, work_dir, touched, segments, journal,
                   claim_post, docker_status, output_json, output_read,
                   raw_proof, groth16_seal, test_receipt_file>>
    /\ UNCHANGED <<zkrVars, vkVars, ciVars, runVars>>

\* bootstrap_groth16.rs:157-171: the text of TestReceipt.sol, as a sequence of
\* fragments.  Line 165 rebinds `seal` to the SEAL declaration, and line 166
\* formats that `seal` into POST_DIGEST.
TestReceiptText(r, image_id) ==
    LET seal0 == hex_encode(r.seal)
        post_digest0 == <<"0x">> \o hex_encode(r.claim_post)
        image_id0 == <<"0x">> \o hex_encode(image_id)
        journal0 == hex_encode(r.journal)
        seal == <<"bytes public constant SEAL = hex\"">> \o seal0 \o <<"\";">>
        post_digest == <<"bytes32 public constant POST_DIGEST = bytes32(">>
                       \o seal \o <<");">>
        journal1 == <<"bytes public constant JOURNAL = hex\"">> \o journal0
                    \o <<"\";">>
        image_id1 == <<"bytes32 public constant IMAGE_ID = bytes32(">>
                     \o image_id0 \o <<");">>
    IN  <<"SOL_HEADER", "LIB_HEADER", "\n">> \o seal \o <<";\n">>
        \o post_digest \o <<";\n">> \o journal1 \o <<";\n">>
        \o image_id1 \o <<";\n}">>

\* bootstrap_groth16.rs:157-175: the text is rendered and written; fs::write
\* creates or truncates the file and then writes, so a failure leaves the
\* file as it was or cut short (held here as the empty text)
tr_write ==
    /\ pc = "tr_write"
    /\ \E ok \in BOOLEAN :
         IF ok
         THEN /\ test_receipt_file' = <<TestReceiptText(receipt[1], MULTI_TEST_ID)>>
              /\ pc' = "tr_fmt"
              /\ UNCHANGED panic_msg
         ELSE /\ pc' = "panicked"
              /\ panic_msg' = MsgWrite
              /\ test_receipt_file' \in {test_receipt_file, <<<<>>>>}
    /\ UNCHANGED <<RISC0_WORK_DIR, tmp_dir, work_dir, touched, log, results,
                   segments, journal, claim_post, docker_status, output_json,
                   output_read, raw_proof, groth16_seal, receipt>>
    /\ UNCHANGED <<zkrVars, vkVars, ciVars, runVars>>

\* bootstrap_groth16.rs:177-182: forge fmt; only a failure to start it panics,
\* its exit status is dropped.  The formatter changes the layout of the file,
\* which this text of fragments does not hold.
tr_fmt ==
    /\ pc = "tr_fmt"
    /\ \E status \in FmtStatuses :
         /\ fmt_runs' = Append(fmt_runs, FmtRun("TestReceipt.sol", status))
         /\ IF fmt_expect(status)
            THEN pc' = "tr_returned" /\ UNCHANGED panic_msg
            ELSE pc' = "panicked" /\ panic_msg' = MsgFormat
    /\ UNCHANGED <<RISC0_WORK_DIR, tmp_dir, work_dir, touched, log, results,
                   segments, journal, claim_post, docker_status, output_json,
                   output_read, raw_proof, groth16_seal, receipt,
                   test_receipt_file>>
    /\ UNCHANGED <<zkrVars, vkVars, ciVars, calls>>

NextReceipt ==
    \/ bootstrap_test_receipt
    \/ gr_start
    \/ gr_execute
    \/ gr_prove
    \/ gr_lift
    \/ gr_identity_p254
    \/ gr_seal_to_json
    \/ gr_docker
    \/ gr_read
    \/ gr_decode_a
    \/ gr_decode_b
    \/ gr_decode_c
    \/ gr_assemble
    \/ tr_write
    \/ tr_fmt

-----------------------------------------------------------------------------
(* xtask: bootstrap_verifying_key.                                          *)

\* bootstrap_groth16.rs:86-90
solidity_constants == <<
    <<"a", "l", "p", "h", "a", "x">>,
    <<"a", "l", "p", "h", "a", "y">>,
    <<"b", "e", "t", "a", "x", "1">>,
    <<"b", "e", "t", "a", "x", "2">>,
    <<"b", "e", "t", "a", "y", "1">>,
    <<"b", "e", "t", "a", "y", "2">>,
    <<"g", "a", "m", "m", "a", "x", "1">>,
    <<"g", "a", "m", "m", "a", "x", "2">>,
    <<"g", "a", "m", "m", "a", "y", "1">>,
    <<"g", "a", "m", "m", "a", "y", "2">>,
    <<"d", "e", "l", "t", "a", "x", "1">>,
    <<"d", "e", "l", "t", "a", "x", "2">>,
    <<"d", "e", "l", "t", "a", "y", "1">>,
    <<"d", "e", "l", "t", "a", "y", "2">>,
    <<"I", "C", "0", "x">>,
    <<"I", "C", "0", "y">>,
    <<"I", "C", "1", "x">>,
    <<"I", "C", "1", "y">>,
    <<"I", "C", "2", "x">>,
    <<"I", "C", "2", "y">>,
    <<"I", "C", "3", "x">>,
    <<"I", "C", "3", "y">>,
    <<"I", "C", "4", "x">>,
    <<"I", "C", "4", "y">>>>

\* bootstrap_groth16.rs:92-96
rust_constants == <<
    <<"A", "L", "P", "H", "A", "_", "X">>,
    <<"A", "L", "P", "H", "A", "_", "Y">>,
    <<"B", "E", "T", "A", "_", "X", "1">>,
    <<"B", "E", "T", "A", "_", "X", "2">>,
    <<"B", "E", "T", "A", "_", "Y", "1">>,
    <<"B", "E", "T", "A", "_", "Y", "2">>,
    <<"G", "A", "M", "M", "A", "_", "X", "1">>,
    <<"G", "A", "M", "M", "A", "_", "X", "2">>,
    <<"G", "A", "M", "M", "A", "_", "Y", "1">>,
    <<"G", "A", "M", "M", "A", "_", "Y", "2">>,
    <<"D", "E", "L", "T", "A", "_", "X", "1">>,
    <<"D", "E", "L", "T", "A", "_", "X", "2">>,
    <<"D", "E", "L", "T", "A", "_", "Y", "1">>,
    <<"D", "E", "L", "T", "A", "_", "Y", "2">>,
    <<"I", "C", "0", "_", "X">>,
    <<"I", "C", "0", "_", "Y">>,
    <<"I", "C", "1", "_", "X">>,
    <<"I", "C", "1", "_", "Y">>,
    <<"I", "C", "2", "_", "X">>,
    <<"I", "C", "2", "_", "Y">>,
    <<"I", "C", "3", "_", "X">>,
    <<"I", "C", "3", "_", "Y">>,
    <<"I", "C", "4", "_", "X">>,
    <<"I", "C", "4", "_", "Y">>>>

\* the loop of lines 98-115 runs over the first NumConstants pairs
Pairs == 1 .. NumConstants

\* the character classes \s and \d (of the ASCII characters)
WS == {" ", "\t", "\n", "\r"}
Digits == {"0", "1", "2", "3", "4", "5", "6", "7", "8", "9"}

\* a regular expression is a sequence of literals and of repeated classes
Lit(s) == [kind |-> "lit", lit |-> s, cls |-> {}]
Plus(c) == [kind |-> "plus", lit |-> <<>>, cls |-> c]
Star(c) == [kind |-> "star", lit |-> <<>>, cls |-> c]

HasAt(text, pos, lit) ==
    /\ pos + Len(lit) - 1 <= Len(text)
    /\ SubSeq(text, pos, pos + Len(lit) - 1) = lit

\* the position after the longest run of characters of cls that starts at pos
RECURSIVE RunEnd(_, _, _)
RunEnd(text, pos, cls) ==
    IF pos <= Len(text) /\ text[pos] \in cls THEN RunEnd(text, pos + 1, cls)
    ELSE pos

\* the position after a match of pat[k..] that starts at pos, 0 when there is
\* none.  In the two expressions of this file no repeated class holds the
\* character that must follow it, so the longest run is the only candidate.
RECURSIVE MatchFrom(_, _, _, _)
MatchFrom(pat, k, text, pos) ==
    IF k > Len(pat) THEN pos
    ELSE IF pat[k].kind = "lit"
    THEN IF HasAt(text, pos, pat[k].lit)
         THEN MatchFrom(pat, k + 1, text, pos + Len(pat[k].lit))
         ELSE 0
    ELSE LET q == RunEnd(text, pos, pat[k].cls)
         IN  IF pat[k].kind = "plus" /\ q = pos THEN 0
             ELSE MatchFrom(pat, k + 1, text, q)

NoMatch == [start |-> 0, end |-> 0]

\* the leftmost match: its first and last position
Find(pat, text) ==
    LET starts == {p \in 1 .. Len(text) : MatchFrom(pat, 1, text, p) > 0}
    IN  IF starts = {} THEN NoMatch
        ELSE LET p == CHOOSE x \in starts : \A y \in starts : x <= y
             IN  [start |-> p, end |-> MatchFrom(pat, 1, text, p) - 1]

K_uint256_constant == <<"u", "i", "n", "t", "2", "5", "6", " ", "c", "o", "n", "s", "t", "a", "n", "t">>
K_const == <<"c", "o", "n", "s", "t", " ">>
K_str_eq == <<":", " ", "&", "s", "t", "r", " ", "=">>

\* bootstrap_groth16.rs:99: uint256 constant\s+{}\s*=\s*(\d+);
solidity_re(constant) ==
    <<Lit(K_uint256_constant), Plus(WS), Lit(constant), Star(WS), Lit(<<"=">>),
      Star(WS), Plus(Digits), Lit(<<";">>)>>

\* bootstrap_groth16.rs:101-105: const {}: &str =[\r\n\s]*"\d+";
rust_re(constant) ==
    <<Lit(K_const \o constant \o K_str_eq), Star(WS), Lit(<<"\"">>),
      Plus(Digits), Lit(<<"\"", ";">>)>>

\* a variant that captures the digits without the first one
captures_tail(re, text) ==
    LET m == Find(re, text)
    IN  IF m = NoMatch THEN [found |-> FALSE, group1 |-> <<>>]
        ELSE [found |-> TRUE,
              group1 |-> SubSeq(text, MatchFrom(SubSeq(re, 1, 6), 1, text, m.start) + 1,
                                m.end - 1)]

\* bootstrap_groth16.rs:100: Regex::captures; group 1 is the run of digits
\* before the final ";"
captures(re, text) ==
    LET m == Find(re, text)
    IN  IF m = NoMatch THEN [found |-> FALSE, group1 |-> <<>>]
        ELSE [found |-> TRUE,
              group1 |-> SubSeq(text, MatchFrom(SubSeq(re, 1, 6), 1, text, m.start),
                                m.end - 1)]

\* a variant that ends the declaration with a line break
replacement_newline(constant, value) ==
    K_const \o constant \o K_str_eq \o <<" ", "\"">> \o value \o <<"\"", ";", "\n">>

\* bootstrap_groth16.rs:109: const {}: &str = "{}";
replacement(constant, value) ==
    K_const \o constant \o K_str_eq \o <<" ", "\"">> \o value \o <<"\"", ";">>

\* a variant that rewrites every match
RECURSIVE replace_all(_, _, _)
replace_all(re, text, rep) ==
    LET m == Find(re, text)
    IN  IF m = NoMatch THEN text
        ELSE SubSeq(text, 1, m.start - 1) \o rep
             \o replace_all(re, SubSeq(text, m.end + 1, Len(text)), rep)

\* bootstrap_groth16.rs:106-111: Regex::replace rewrites the leftmost match
\* and leaves a text without a match as it is (the replacement holds no $)
replace(re, text, rep) ==
    LET m == Find(re, text)
    IN  IF m = NoMatch THEN text
        ELSE SubSeq(text, 1, m.start - 1) \o rep \o SubSeq(text, m.end + 1, Len(text))

\* bootstrap_groth16.rs:99-114: the body of the loop for pair i
sync_constant(i, sol, rust) ==
    LET caps == captures(solidity_re(solidity_constants[i]), sol)
    IN  IF caps.found
        THEN replace(rust_re(rust_constants[i]), rust,
                     replacement(rust_constants[i], caps.group1))
        ELSE rust

\* a variant that leaves the loop at the first constant that is not found
next_index_break(i, found) == IF found THEN i + 1 ELSE NumConstants + 1

\* bootstrap_groth16.rs:98: the loop goes on to the next pair whether or not
\* the constant was found
next_index(i, found) == i + 1

\* bootstrap_groth16.rs:98-115: the whole loop, from pair i on
RECURSIVE sync_from(_, _, _)
sync_from(i, sol, rust) ==
    IF i > NumConstants THEN rust
    ELSE sync_from(i + 1, sol, sync_constant(i, sol, rust))

\* the texts the two files may hold: one declaration per constant, in one of
\* a few layouts, or none
SolDecl(constant, k) ==
    CASE k = 1 -> K_uint256_constant \o <<" ">> \o constant \o <<" ", "=", " ", "4", "2", ";", "\n">>
      [] k = 2 -> K_uint256_constant \o <<"\t">> \o constant \o <<"=", "7", ";", "\n">>
      [] k = 3 -> K_uint256_constant \o <<" ">> \o constant \o <<" ", "=", " ", "0", "x", "2", "a", ";", "\n">>
      [] OTHER -> <<>>

RustDecl(constant, k) ==
    LET decl == K_const \o constant \o K_str_eq
    IN  CASE k = 1 -> decl \o <<" ", "\"", "0", "\"", ";", "\n">>
          [] k = 2 -> decl \o <<"\n", " ", " ", " ", " ", "\"", "9", "9", "9", "\"", ";", "\n">>
          [] k = 3 -> decl \o <<" ", "\"", "\"", ";", "\n">>
          [] k = 4 -> decl \o <<" ", "\"", "1", "\"", ";", "\n">> \o decl \o <<"\"", "2", "\"", ";", "\n">>
          [] OTHER -> <<>>

RECURSIVE SolText(_, _)
SolText(ks, i) ==
    IF i > NumConstants THEN <<"}", "\n">>
    ELSE SolDecl(solidity_constants[i], ks[i]) \o SolText(ks, i + 1)

RECURSIVE RustText(_, _)
RustText(ks, i) ==
    IF i > NumConstants THEN <<"/", "/", " ", "e", "n", "d", "\n">>
    ELSE RustDecl(rust_constants[i], ks[i]) \o RustText(ks, i + 1)

SolidityFiles == {<<"/", "/", " ", "v", "k", "\n">> \o SolText(ks, 1) : ks \in [Pairs -> 0 .. 3]}
RustFiles == {<<"u", "s", "e", " ", "x", ";", "\n">> \o RustText(ks, 1) : ks \in [Pairs -> 0 .. 4]}

VkInit ==
    /\ sol_file \in SolidityFiles
    /\ rust_file \in RustFiles
    /\ solidity_code = <<>>
    /\ rust_code = <<>>
    /\ rust_before = <<>>
    /\ rust0 = <<>>
    /\ vk_i = 0
    /\ printed = <<>>

\* bootstrap_groth16.rs:76-84: both files are read
bootstrap_verifying_key ==
    /\ pc = "vk_call"
    /\ \E ok \in BOOLEAN :
         IF ok
         THEN /\ solidity_code' = sol_file
              /\ rust_code' = rust_file
              /\ rust0' = rust_file
              /\ vk_i' = 1
              /\ pc' = "vk_loop"
              /\ UNCHANGED panic_msg
         ELSE /\ pc' = "panicked"
              /\ panic_msg' = MsgVkRead
              /\ UNCHANGED <<solidity_code, rust_code, rust0, vk_i>>
    /\ calls' = Append(calls, "bootstrap_verifying_key")
    /\ UNCHANGED <<sol_file, rust_file, rust_before, printed>>
    /\ UNCHANGED <<RISC0_WORK_DIR, tmp_dir, work_dir, touched, log, results,
                   segments, journal, claim_post, docker_status, output_json,
                   output_read, raw_proof, groth16_seal, receipt,
                   test_receipt_file>>
    /\ UNCHANGED <<zkrVars, ciVars, fmt_runs>>

\* bootstrap_groth16.rs:98-115: one turn of the loop
vk_loop ==
    /\ pc = "vk_loop"
    /\ vk_i <= NumConstants
    /\ LET found == captures(solidity_re(solidity_constants[vk_i]), solidity_code).found
       IN  /\ rust_before' = rust_code
           /\ rust_code' = sync_constant(vk_i, solidity_code, rust_code)
           /\ printed' = IF found THEN printed
                         ELSE Append(printed, solidity_constants[vk_i] \o K_not_found)
           /\ vk_i' = next_index(vk_i, found)
    /\ UNCHANGED <<sol_file, rust_file, solidity_code, rust0>>
    /\ UNCHANGED <<RISC0_WORK_DIR, tmp_dir, work_dir, touched, log, results,
                   segments, journal, claim_post, docker_status, output_json,
                   output_read, raw_proof, groth16_seal, receipt,
                   test_receipt_file, panic_msg, pc>>
    /\ UNCHANGED <<zkrVars, ciVars, runVars>>

\* bootstrap_groth16.rs:117-120: the text is written back; a failed fs::write
\* leaves the file as it was or cut short (held here as the empty text)
vk_write ==
    /\ pc = "vk_loop"
    /\ vk_i > NumConstants
    /\ \E ok \in BOOLEAN :
         IF ok
         THEN rust_file' = rust_code /\ pc' = "vk_fmt" /\ UNCHANGED panic_msg
         ELSE /\ pc' = "panicked" /\ panic_msg' = MsgVkWrite
              /\ rust_file' \in {rust_file, <<>>}
    /\ UNCHANGED <<sol_file, solidity_code, rust_code, rust_before, rust0, vk_i,
                   printed>>
    /\ UNCHANGED <<RISC0_WORK_DIR, tmp_dir, work_dir, touched, log, results,
                   segments, journal, claim_post, docker_status, output_json,
                   output_read, raw_proof, groth16_seal, receipt,
                   test_receipt_file>>
    /\ UNCHANGED <<zkrVars, ciVars, runVars>>

\* bootstrap_groth16.rs:122-126: rustfmt; only a failure to start it panics,
\* its exit status is dropped.  The formatter changes the layout of the file
\* only; rust_file keeps the text as written.
vk_fmt ==
    /\ pc = "vk_fmt"
    /\ \E status \in FmtStatuses :
         /\ fmt_runs' = Append(fmt_runs, FmtRun("groth16.rs", status))
         /\ IF fmt_expect(status)
            THEN pc' = "vk_returned" /\ UNCHANGED panic_msg
            ELSE pc' = "panicked" /\ panic_msg' = MsgFormat
    /\ UNCHANGED vkVars
    /\ UNCHANGED <<RISC0_WORK_DIR, tmp_dir, work_dir, touched, log, results,
                   segments, journal, claim_post, docker_status, output_json,
                   output_read, raw_proof, groth16_seal, receipt,
                   test_receipt_file>>
    /\ UNCHANGED <<zkrVars, ciVars, calls>>

NextVk ==
    \/ bootstrap_verifying_key
    \/ vk_loop
    \/ vk_write
    \/ vk_fmt

-----------------------------------------------------------------------------
(* xtask: bootstrap_control_id and split_digest.                            *)

\* a Digest is DIGEST_WORDS words of four bytes; the model cuts it to
\* DigestWords words, over a few byte values
DIGEST_BYTES == 4 * DigestWords
DigestByteValues == {0, 1, 255}
Digests == [1 .. DIGEST_BYTES -> DigestByteValues]
K_0x == <<"0", "x">>

Reverse(s) == [i \in 1 .. Len(s) |-> s[Len(s) + 1 - i]]

\* Digest::from_hex: the text is hex-decoded and must fill a digest
from_hex(text) ==
    LET bytes == hex_decode(text)
    IN  IF bytes = DecodeError \/ Len(bytes) # DIGEST_BYTES THEN DecodeError
        ELSE bytes

\* a variant that does not reverse the bytes
split_digest_unreversed(d) ==
    LET middle == Len(d) \div 2
    IN  <<K_0x \o hex_encode(SubSeq(d, 1, middle)),
          K_0x \o hex_encode(SubSeq(d, middle + 1, Len(d)))>>

\* bootstrap_groth16.rs:186-194
split_digest(d) ==
    LET big_endian == Reverse(d)
        middle == Len(big_endian) \div 2
    IN  <<K_0x \o hex_encode(SubSeq(big_endian, 1, middle)),
          K_0x \o hex_encode(SubSeq(big_endian, middle + 1, Len(big_endian)))>>

\* bootstrap_groth16.rs:135-137: the text of ControlID.sol, as a sequence of
\* fragments
ControlIdText(ids) ==
    <<"SOL_HEADER", "LIB_HEADER", "\n", "uint256 public constant CONTROL_ID_0 = ">>
    \o ids[1] \o <<";", "\n", "uint256 public constant CONTROL_ID_1 = ">>
    \o ids[2] \o <<";", "\n}">>

MsgCiWrite == "failed to save changes to ControlID.sol"

\* bootstrap_control_id has not run
CiFresh == control_id = <<>> /\ control_id_file = <<>>
\* ... and is not looked at
CiIdle == ALLOWED_IDS_ROOT = hex_encode([i \in 1 .. DIGEST_BYTES |-> 0]) /\ CiFresh
CiInit == ALLOWED_IDS_ROOT \in {hex_encode(d) : d \in Digests} /\ CiFresh

\* bootstrap_groth16.rs:129-134: the root is parsed and split
bootstrap_control_id ==
    /\ pc = "ci_call"
    /\ calls' = Append(calls, "bootstrap_control_id")
    /\ LET d == from_hex(ALLOWED_IDS_ROOT)
       IN  IF d = DecodeError
           THEN pc' = "panicked" /\ panic_msg' = MsgUnwrap /\ UNCHANGED control_id
           ELSE pc' = "ci_write" /\ control_id' = split_digest(d)
                /\ UNCHANGED panic_msg
    /\ UNCHANGED <<ALLOWED_IDS_ROOT, control_id_file, fmt_runs>>
    /\ UNCHANGED <<RISC0_WORK_DIR, tmp_dir, work_dir, touched, log, results,
                   segments, journal, claim_post, docker_status, output_json,
                   output_read, raw_proof, groth16_seal, receipt,
                   test_receipt_file>>
    /\ UNCHANGED <<zkrVars, vkVars>>

\* bootstrap_groth16.rs:135-141: the text is rendered and written; a failed
\* fs::write leaves the file as it was or cut short
ci_write ==
    /\ pc = "ci_write"
    /\ \E ok \in BOOLEAN :
         IF ok
         THEN /\ control_id_file' = <<ControlIdText(control_id)>>
              /\ pc' = "ci_fmt"
              /\ UNCHANGED panic_msg
         ELSE /\ pc' = "panicked"
              /\ panic_msg' = MsgCiWrite
              /\ control_id_file' \in {control_id_file, <<<<>>>>}
    /\ UNCHANGED <<ALLOWED_IDS_ROOT, control_id, runVars>>
    /\ UNCHANGED <<RISC0_WORK_DIR, tmp_dir, work_dir, touched, log, results,
                   segments, journal, claim_post, docker_status, output_json,
                   output_read, raw_proof, groth16_seal, receipt,
                   test_receipt_file>>
    /\ UNCHANGED <<zkrVars, vkVars>>

\* bootstrap_groth16.rs:143-148: forge fmt; only a failure to start it panics
ci_fmt ==
    /\ pc = "ci_fmt"
    /\ \E status \in FmtStatuses :
         /\ fmt_runs' = Append(fmt_runs, FmtRun("ControlID.sol", status))
         /\ IF fmt_expect(status)
            THEN pc' = "ci_returned" /\ UNCHANGED panic_msg
            ELSE pc' = "panicked" /\ panic_msg' = MsgFormat
    /\ UNCHANGED <<ciVars, calls>>
    /\ UNCHANGED <<RISC0_WORK_DIR, tmp_dir, work_dir, touched, log, results,
                   segments, journal, claim_post, docker_status, output_json,
                   output_read, raw_proof, groth16_seal, receipt,
                   test_receipt_file>>
    /\ UNCHANGED <<zkrVars, vkVars>>

NextControlId ==
    \/ bootstrap_control_id
    \/ ci_write
    \/ ci_fmt

-----------------------------------------------------------------------------
(* xtask: BootstrapGroth16::run.                                            *)

\* a variant that calls bootstrap_control_id first
next_entry_swapped(p) ==
    CASE p = "run" -> "ci_call"
      [] p = "ci_returned" -> "vk_call"
      [] OTHER -> "tr_call"

\* bootstrap_groth16.rs:69-73: the three calls, each after the one before it
\* returned
next_entry(p) ==
    CASE p = "run" -> "vk_call"
      [] p = "vk_returned" -> "ci_call"
      [] OTHER -> "tr_call"

\* bootstrap_groth16.rs:69-73: run calls the next entry point; it returns when
\* bootstrap_test_receipt has returned
run ==
    /\ pc \in {"run", "vk_returned", "ci_returned"}
    /\ pc' = next_entry(pc)
    /\ UNCHANGED <<panic_msg, RISC0_WORK_DIR, tmp_dir, work_dir, touched, log,
                   results, segments, journal, claim_post, docker_status,
                   output_json, output_read, raw_proof, groth16_seal, receipt,
                   test_receipt_file>>
    /\ UNCHANGED <<zkrVars, vkVars, ciVars, runVars>>

NextRun ==
    \/ run
    \/ NextVk
    \/ NextControlId
    \/ NextReceipt

-----------------------------------------------------------------------------
(* Properties of download_zkr.                                              *)

\* the digest of a file, as hex text
HexDigest(f) == hex_encode(Sha256(f))
CacheMiss(f) == f = NoFile \/ HexDigest(f) # SHA256_HASH
\* a call of download_zkr is running or has ended, and nothing changed since
InCall == zkr_pc # "idle"

\* C1: outside documentation-build mode, whenever download_zkr returns
\* normally (by reuse, by copy of the local source or by download), the file
\* at out_path exists and its digest is the expected one.
C1_SuccessLeavesVerifiedFile ==
    (zkr_pc = "returned" /\ ~DOCS_RS) =>
        (out_file # NoFile /\ HexDigest(out_file) = SHA256_HASH)

\* a stale cached file was removed and the download was accepted
C1_Witness ==
    /\ zkr_pc = "returned" /\ zkr_path = "download"
    /\ out0 # NoFile /\ removed = 1 /\ src0 = NoFile

\* C2: when the file at out_path exists with the expected digest, the call
\* starts no download, does not read src_path, removes nothing and leaves
\* out_file as it was; it returns by reuse, and so does a second call in the
\* same state, with the same content.
C2_CacheHitIsIdempotent ==
    /\ (InCall /\ ~DOCS_RS /\ ~CacheMiss(out0)) =>
          /\ net_access = 0 /\ ~src_read /\ removed = 0
          /\ out_file = out0 /\ src_file = src0
          /\ zkr_pc = "returned" => zkr_path = "reuse"
    /\ (InCall /\ prev_call.path = "reuse" /\ zkr_pc = "returned") =>
          /\ zkr_path = "reuse"
          /\ out_file = prev_call.out

\* two calls in a row, both served from the cache
C2_Witness ==
    /\ zkr_calls = 2 /\ zkr_pc = "returned"
    /\ prev_call.path = "reuse" /\ zkr_path = "reuse"

\* C3: a download is started only after the cache missed (no file, or a
\* mismatching file that was removed) and the local source missed too; when
\* the cache misses and the local source has the expected digest, no download
\* is started and a normal return leaves a copy of the local source at out_path.
C3_NetworkOnlyOnMiss ==
    /\ (InCall /\ net_access > 0) =>
          /\ net_access = 1
          /\ ~DOCS_RS
          /\ CacheMiss(out0) /\ CacheMiss(src0)
          /\ out0 # NoFile => removed = 1
    /\ (InCall /\ ~DOCS_RS /\ CacheMiss(out0) /\ ~CacheMiss(src0)) =>
          /\ net_access = 0
          /\ zkr_pc = "returned" => (zkr_path = "copy" /\ out_file = src0)

\* the network was reached after a stale cached file and a mismatching local
\* source
C3_Witness ==
    /\ net_access = 1 /\ removed = 1
    /\ out0 # NoFile /\ src0 # NoFile

-----------------------------------------------------------------------------
(* Properties of generate_receipt and bootstrap_test_receipt.               *)

Entered(stage) == Len(log) >= StageIndex(stage)
AllOk(rs) == \A i \in 1 .. Len(rs) : rs[i] = "ok"

\* C4: the stages run in the one fixed order, none twice; a stage is entered
\* only when every stage before it succeeded; a failed stage ends the process
\* with a panic and no receipt; a receipt is returned only after all stages
\* succeeded.
C4_StagesInOrderAbortOnFailure ==
    /\ Len(log) <= Len(STAGES)
    /\ log = SubSeq(STAGES, 1, Len(log))
    /\ Len(results) = Len(log)
    /\ AllOk(SubSeq(results, 1, Len(results) - 1))
    /\ ~AllOk(results) => (pc = "panicked" /\ receipt = <<>>)
    /\ receipt # <<>> => (log = STAGES /\ AllOk(results))

\* lift (or its integrity check) failed after execute and prove succeeded
C4_Witness ==
    /\ pc = "panicked"
    /\ log = <<"execute", "prove", "lift">>
    /\ results = <<"ok", "ok", "failed">>

\* C5: when the prover does not exit with success (non-zero status, killed,
\* or not started), the process panics, output.json is never read or parsed
\* and no receipt is assembled; output.json is read only after the prover
\* exited with success.
C5_ProverFailureIsFatal ==
    /\ docker_status \in {"exit 1", "signal", "spawn failed"} =>
          /\ pc = "panicked"
          /\ ~output_read /\ raw_proof = NoGroups
          /\ <<"read output.json", work_dir>> \notin touched
          /\ receipt = <<>> /\ test_receipt_file = <<>>
    /\ docker_status \in {"exit 1", "signal"} => panic_msg = MsgDocker
    /\ output_read => docker_status = "exit 0"

\* the prover left an output.json and exited with status 1
C5_Witness ==
    /\ docker_status = "exit 1" /\ output_json # <<>>
    /\ pc = "panicked"

\* a 0x prefix followed by hex digits only
ValidPrefixedHex(x) ==
    /\ Len(x) >= 2 /\ x[1] = "0" /\ x[2] = "x"
    /\ \A i \in 3 .. Len(x) : HexVal(x[i]) >= 0
\* ... and an even number of them
WellFormedToken(x) == ValidPrefixedHex(x) /\ Len(x) % 2 = 0
HasNonHexToken(g) == \E i \in 1 .. Len(g) : ~ValidPrefixedHex(g[i])

\* C6: for every output of the prover that parses and whose group 1 holds a
\* token that is not valid hex, once the decoding of group a has run the
\* process has panicked with the decode error that names a, and
\* TestReceipt.sol has not been written.
C6_NonHexTokenFailsNamingA ==
    (/\ output_read /\ from_str(output_json[1])
     /\ HasNonHexToken(output_json[1].groups.a)
     /\ Len(log) >= StageIndex("decode a")) =>
        /\ pc = "panicked" /\ panic_msg = MsgDecodeA
        /\ test_receipt_file = <<>>

AllWellFormed(g) == \A i \in 1 .. Len(g) : WellFormedToken(g[i])
\* the groups a, b and c hold well-formed tokens only, those of b in pairs
WellFormedGroups(gs) ==
    /\ AllWellFormed(gs.a) /\ AllWellFormed(gs.c)
    /\ \A i \in 1 .. Len(gs.b) : Len(gs.b[i]) = 2 /\ AllWellFormed(gs.b[i])

\* the hex digits of a token after its prefix, in lower case
Payload(x) == [i \in 1 .. Len(x) - 2 |-> HexDigits[HexVal(x[i + 2]) + 1]]
\* the decoded vector has one byte string per token, in the tokens' order
SameAs(decoded, g) ==
    /\ Len(decoded) = Len(g)
    /\ \A i \in 1 .. Len(g) : hex_encode(decoded[i]) = Payload(g[i])
SealMatches(seal, gs) ==
    /\ SameAs(seal.a, gs.a) /\ SameAs(seal.c, gs.c)
    /\ Len(seal.b) = Len(gs.b)
    /\ \A i \in 1 .. Len(gs.b) : SameAs(seal.b[i], gs.b[i])

\* the read and decode stages accepted the document: a panic, if any, came
\* after the last stage
DecodeAccepted == pc = "panicked" => Len(log) = Len(STAGES)

\* C7 as stated: an output of exactly three groups of well-formed tokens is
\* accepted by the read and decode stages, and the seal's a, b and c match
\* the three groups.
C7_ThreeGroupsAccepted ==
    (/\ Entered("read") /\ output_json # <<>>
     /\ output_json[1].wellformed /\ output_json[1].typed
     /\ output_json[1].ngroups = 3
     /\ WellFormedGroups(output_json[1].groups)) =>
        /\ DecodeAccepted
        /\ Entered("decode c") => SealMatches(groth16_seal, output_json[1].groups)

\* C7, amended: an output of exactly four groups, the fourth a list of
\* strings that is not decoded, with well-formed tokens in the first three,
\* is accepted by the read and decode stages, and the seal's a, b and c hold
\* the bytes of the tokens of groups 1, 2 and 3, in order and with b's nesting.
C7_FourGroupsAccepted ==
    (/\ Entered("read") /\ output_json # <<>>
     /\ output_json[1].wellformed /\ output_json[1].typed
     /\ output_json[1].ngroups = 4
     /\ WellFormedGroups(output_json[1].groups)) =>
        /\ DecodeAccepted
        /\ Entered("decode c") => SealMatches(groth16_seal, output_json[1].groups)

\* a receipt was written from an output with two tokens in a and two pairs in b
C7_Witness ==
    /\ pc = "tr_returned"
    /\ output_json[1].ngroups = 4
    /\ WellFormedGroups(output_json[1].groups)
    /\ Len(groth16_seal.a) = 2 /\ Len(groth16_seal.b) = 2

-----------------------------------------------------------------------------
(* Properties of bootstrap_verifying_key.                                   *)

\* the pair of the last turn of the loop, once a turn has been taken
LastPair == vk_i - 1
TurnTaken == pc = "vk_loop" /\ vk_i >= 2
LoopDone == pc \in {"vk_loop", "vk_fmt", "vk_returned"} /\ vk_i > NumConstants
SourceFound(i) ==
    Find(solidity_re(solidity_constants[i]), solidity_code) # NoMatch

\* the position where the run of digits that ends at position pos starts
RECURSIVE DigitsStart(_, _)
DigitsStart(text, pos) ==
    IF pos >= 1 /\ text[pos] \in Digits THEN DigitsStart(text, pos - 1) ELSE pos + 1

\* the decimal literal of the first declaration of pair i in the Solidity
\* text: the digits in front of the ";" that ends it
SourceValue(i) ==
    LET m == Find(solidity_re(solidity_constants[i]), solidity_code)
    IN  SubSeq(solidity_code, DigitsStart(solidity_code, m.end - 1), m.end - 1)

\* text with the characters first..last replaced by new
Splice(text, first, last, new) ==
    SubSeq(text, 1, first - 1) \o new \o SubSeq(text, last + 1, Len(text))

\* C8 as stated: when the source constant of a pair is found and the target
\* text holds a declaration of the target constant (with a decimal literal),
\* the turn of the loop replaces the digits between the quotes by the
\* source's value, whatever they were, and changes no other character: the
\* white space and line breaks inside the declaration stay as they were.
C8_OnlyTheLiteralChanges ==
    (/\ TurnTaken /\ SourceFound(LastPair)
     /\ Find(rust_re(rust_constants[LastPair]), rust_before) # NoMatch) =>
        LET m == Find(rust_re(rust_constants[LastPair]), rust_before)
        IN  rust_code = Splice(rust_before, DigitsStart(rust_before, m.end - 2),
                               m.end - 2, SourceValue(LastPair))

\* C8, amended: when the source constant of a pair is found and the target
\* text holds a declaration of the target constant with a decimal literal,
\* the turn of the loop replaces the first such declaration, from `const` to
\* its `;`, by `const NAME: &str = "VALUE";` with the source's value, whatever
\* the decimal literal was; white space and line breaks between `=` and the
\* literal become one space, and every character outside that declaration is
\* byte-identical to the input.
C8_DeclarationRewritten ==
    (/\ TurnTaken /\ SourceFound(LastPair)
     /\ Find(rust_re(rust_constants[LastPair]), rust_before) # NoMatch) =>
        LET m == Find(rust_re(rust_constants[LastPair]), rust_before)
            decl == K_const \o rust_constants[LastPair] \o K_str_eq \o <<" ", "\"">>
                    \o SourceValue(LastPair) \o <<"\"", ";">>
            tail == Len(rust_before) - m.end
        IN  /\ SubSeq(rust_code, 1, m.start - 1) = SubSeq(rust_before, 1, m.start - 1)
            /\ SubSeq(rust_code, Len(rust_code) - tail + 1, Len(rust_code))
                 = SubSeq(rust_before, m.end + 1, Len(rust_before))
            /\ SubSeq(rust_code, m.start, Len(rust_code) - tail) = decl

\* the second pair's declaration, laid out over two lines, was rewritten
C8_Witness ==
    /\ TurnTaken /\ LastPair = 2 /\ SourceFound(2)
    /\ Find(rust_re(rust_constants[2]), rust_before) # NoMatch
    /\ Len(rust_code) < Len(rust_before)

\* C9: a second run of the loop over its own result, with the same Solidity
\* text, changes nothing.
C9_SecondPassIsNoOp ==
    LoopDone => sync_from(1, solidity_code, rust_code) = rust_code

\* the first pass rewrote the text
C9_Witness ==
    /\ pc = "vk_returned" /\ rust_file # rust0
    /\ \A i \in Pairs : SourceFound(i)

\* the lines printed for the pairs up to n whose source constant is missing
RECURSIVE NotFoundLines(_)
NotFoundLines(n) ==
    IF n = 0 THEN <<>>
    ELSE IF SourceFound(n) THEN NotFoundLines(n - 1)
    ELSE Append(NotFoundLines(n - 1), solidity_constants[n] \o K_not_found)

\* C10: a turn of the loop for a pair whose source constant has no
\* declaration prints its name and leaves the target text as it was; the loop
\* does not stop there: when it ends, every pair has been applied in mapping
\* order and every missing name has been printed; a panic never comes from
\* the loop, and the text written back is the updated one.
C10_MissingSourceIsSkipped ==
    /\ (TurnTaken /\ ~SourceFound(LastPair)) =>
          /\ rust_code = rust_before
          /\ printed # <<>>
          /\ printed[Len(printed)] = solidity_constants[LastPair] \o K_not_found
    /\ LoopDone =>
          /\ rust_code = sync_from(1, solidity_code, rust0)
          /\ printed = NotFoundLines(NumConstants)
    /\ pc \in {"vk_fmt", "vk_returned"} => rust_file = rust_code
    /\ pc = "panicked" => (vk_i = 0 \/ vk_i > NumConstants)

\* the first constant was missing, the second was still synchronised and the
\* file written
C10_Witness ==
    /\ pc = "vk_returned"
    /\ ~SourceFound(1) /\ SourceFound(2)
    /\ printed = <<solidity_constants[1] \o K_not_found>>
    /\ rust_file # rust0

-----------------------------------------------------------------------------
(* Properties of the formatter runs and of BootstrapGroth16::run.           *)

\* C11: a formatter run that did not end with success (a non-zero exit
\* status, or a process that could not be started) is the last thing the
\* process did: the entry point has panicked and no entry point was called
\* after it.
C11_FormatterFailureIsFatal ==
    \A i \in 1 .. Len(fmt_runs) :
        fmt_runs[i].status # "exit 0" =>
            /\ pc = "panicked" /\ panic_msg = MsgFormat
            /\ i = Len(fmt_runs)
            /\ Len(calls) = i

EntryPoints == <<"bootstrap_verifying_key", "bootstrap_control_id",
                 "bootstrap_test_receipt">>

\* the entry points are called in the fixed order, each after the one before
\* it returned; what the ones that returned wrote stays as they wrote it
InOrderNoRollback ==
    /\ calls = SubSeq(EntryPoints, 1, Len(calls))
    /\ Len(calls) >= 2 =>
          /\ Len(fmt_runs) >= 1 /\ fmt_runs[1].file = "groth16.rs"
          /\ vk_i > NumConstants
          /\ rust_file = rust_code
    /\ Len(calls) >= 3 =>
          /\ Len(fmt_runs) >= 2 /\ fmt_runs[2].file = "ControlID.sol"
          /\ control_id_file = <<ControlIdText(control_id)>>

\* C19 as stated: the entry points run in the fixed order, each after the one
\* before it returned; when the second or the third panics, the files of the
\* earlier ones stay as rewritten and its own file has not been touched.
C19_FailingEntryLeavesTargetUntouched ==
    /\ InOrderNoRollback
    /\ (pc = "panicked" /\ Len(calls) = 2) => control_id_file = <<>>
    /\ (pc = "panicked" /\ Len(calls) = 3) => test_receipt_file = <<>>

\* C19, amended: the entry points run in the fixed order, each after the one
\* before it returned, and nothing is rolled back; when the second or the
\* third panics, the files of the earlier ones stay as rewritten, and its own
\* file is untouched when the panic came before its write (the pipeline
\* aborted), untouched or cut short when the write failed, and rewritten
\* when its formatter could not be started.
C19_NoRollback ==
    /\ InOrderNoRollback
    /\ (pc = "panicked" /\ Len(calls) = 2) =>
          /\ panic_msg = MsgUnwrap => control_id_file = <<>>
          /\ panic_msg = MsgCiWrite => control_id_file \in {<<>>, <<<<>>>>}
          /\ panic_msg = MsgFormat => control_id_file = <<ControlIdText(control_id)>>
    /\ (pc = "panicked" /\ Len(calls) = 3) =>
          /\ receipt = <<>> => test_receipt_file = <<>>
          /\ panic_msg = MsgWrite => test_receipt_file \in {<<>>, <<<<>>>>}
          /\ panic_msg = MsgFormat =>
                test_receipt_file = <<TestReceiptText(receipt[1], MULTI_TEST_ID)>>

\* the prover failed in the third entry point, after the first two rewrote
\* their files
C19_Witness ==
    /\ pc = "panicked" /\ calls = EntryPoints /\ panic_msg = MsgDocker
    /\ rust_file # rust0 /\ control_id_file # <<>>
    /\ test_receipt_file = <<>>

-----------------------------------------------------------------------------
(* Properties of bootstrap_test_receipt and generate_receipt, continued.    *)

\* whether part occurs in text, as consecutive fragments
Contains(text, part) ==
    \E i \in 0 .. Len(text) - Len(part) : SubSeq(text, i + 1, i + Len(part)) = part

\* C12: the text written to TestReceipt.sol declares SEAL with the hex of the
\* receipt's seal, POST_DIGEST with the hex of the claim's post-state digest,
\* JOURNAL with the hex of the journal and IMAGE_ID with the hex of the image
\* id.
C12_EachConstantFromItsOwnValue ==
    (test_receipt_file # <<>> /\ test_receipt_file[1] # <<>>) =>
        LET text == test_receipt_file[1]
            r == receipt[1]
        IN  /\ Contains(text, <<"bytes public constant SEAL = hex\"">>
                              \o hex_encode(r.seal) \o <<"\";">>)
            /\ Contains(text, <<"bytes32 public constant POST_DIGEST = bytes32(", "0x">>
                              \o hex_encode(r.claim_post) \o <<");">>)
            /\ Contains(text, <<"bytes public constant JOURNAL = hex\"">>
                              \o hex_encode(r.journal) \o <<"\";">>)
            /\ Contains(text, <<"bytes32 public constant IMAGE_ID = bytes32(", "0x">>
                              \o hex_encode(MULTI_TEST_ID) \o <<");">>)

DecodeStages == {"read", "decode a", "decode b", "decode c"}
LastStage == log[Len(log)]

\* C15: when the process panics while it parses the prover's output or
\* decodes one of its groups, the panic message is the decode error that
\* names a group, and for a group's stage it names that group.
C15_DecodeFailureNamesGroup ==
    (/\ pc = "panicked" /\ log # <<>> /\ LastStage \in DecodeStages
     /\ output_json # <<>>) =>
        /\ panic_msg \in {MsgDecodeA, MsgDecodeB, MsgDecodeC}
        /\ LastStage = "decode a" => panic_msg = MsgDecodeA
        /\ LastStage = "decode b" => panic_msg = MsgDecodeB
        /\ LastStage = "decode c" => panic_msg = MsgDecodeC

\* C16: when the session has a number of segments other than one, the
\* process panics in the execute stage on the assertion: no later stage is
\* entered, so no segment is proven, the prover is not run, no working
\* directory is used and no receipt is returned; the prove stage is entered
\* with exactly one segment only.
C16_SegmentCountMustBeOne ==
    /\ (log # <<>> /\ segments # 1) =>
          /\ pc = "panicked"
          /\ log = <<"execute">> /\ results = <<"failed">>
          /\ docker_status = "not run" /\ touched = {}
          /\ receipt = <<>> /\ test_receipt_file = <<>>
    /\ panic_msg = MsgSegments => (segments # 1 /\ log = <<"execute">>)
    /\ Entered("prove") => segments = 1

\* the session had two segments
C16_Witness ==
    /\ pc = "panicked" /\ panic_msg = MsgSegments
    /\ segments = 2

\* generate_receipt returned normally
GrReturned == receipt # <<>>
\* generate_receipt is running, past the choice of its working directory
GrRunning == pc \in {STAGES[i] : i \in 1 .. Len(STAGES)}

\* C18: seal.r0 and the witness document are written to, the prover is run
\* over and output.json is read from one directory only: the override when
\* RISC0_WORK_DIR is set, the temporary directory of this call when it is
\* not; the temporary directory exists while generate_receipt runs and is
\* removed once generate_receipt has returned normally.
C18_OneWorkDirTempRemovedOnReturn ==
    /\ \A t \in touched : t[2] = IF RISC0_WORK_DIR THEN "override" ELSE "tmp"
    /\ GrRunning =>
          /\ tmp_dir = "exists"
          /\ work_dir = IF RISC0_WORK_DIR THEN "override" ELSE "tmp"
    /\ GrReturned => tmp_dir = "removed"

\* a receipt was written by a run that worked in the override directory
C18_Witness ==
    /\ pc = "tr_returned" /\ RISC0_WORK_DIR
    /\ touched = {<<"write seal.r0", "override">>, <<"write input.json", "override">>,
                  <<"docker run", "override">>, <<"read output.json", "override">>}
    /\ tmp_dir = "removed"

-----------------------------------------------------------------------------
(* Properties of split_digest.                                              *)

\* a hex text without its two-character prefix
Strip0x(h) == SubSeq(h, 3, Len(h))
Zeros(n) == [i \in 1 .. n |-> 0]
ZeroDigits(n) == [i \in 1 .. n |-> "0"]

\* C13: the two halves split_digest returns start with 0x and are equally
\* long, and the bytes of the first followed by the bytes of the second, in
\* reverse order, are the bytes of the digest; the digest of 32 zero bytes
\* gives 0x and 32 zero digits twice.
C13_SplitDigestRoundTrip ==
    /\ control_id # <<>> =>
          LET d == from_hex(ALLOWED_IDS_ROOT)
              h0 == control_id[1]
              h1 == control_id[2]
          IN  /\ SubSeq(h0, 1, 2) = K_0x /\ SubSeq(h1, 1, 2) = K_0x
              /\ Len(h0) = Len(h1)
              /\ Reverse(hex_decode(Strip0x(h0)) \o hex_decode(Strip0x(h1))) = d
    /\ split_digest(Zeros(32)) = <<K_0x \o ZeroDigits(32), K_0x \o ZeroDigits(32)>>

\* a digest that is not its own reverse was split and written
C13_Witness ==
    /\ pc = "ci_returned" /\ control_id_file # <<>>
    /\ from_hex(ALLOWED_IDS_ROOT) # Reverse(from_hex(ALLOWED_IDS_ROOT))

-----------------------------------------------------------------------------
(* Properties of download_zkr, continued.                                   *)

\* C14: with DOCS_RS set, a call returns normally at once: it reads neither
\* out_path nor src_path, removes nothing, starts no download, and leaves
\* both files as they were, whatever they hold.
C14_DocsRsIsNoOp ==
    (InCall /\ DOCS_RS) =>
        /\ zkr_pc \in {"docs_rs", "returned"}
        /\ zkr_pc = "returned" => zkr_path = "skip"
        /\ ~out_read /\ ~src_read /\ removed = 0 /\ net_access = 0
        /\ out_file = out0 /\ src_file = src0

\* the call was skipped over a stale cached file and a missing local source
C14_Witness ==
    /\ zkr_pc = "returned" /\ zkr_path = "skip"
    /\ out0 # NoFile /\ CacheMiss(out0) /\ src0 = NoFile

\* a call of download_zkr is running
ZkrRunning == zkr_pc \in {"docs_rs", "cache", "local", "download"}

\* the steps of download_zkr, in the order of the code
ZkrRank(p) ==
    CASE p = "docs_rs" -> 1 [] p = "cache" -> 2 [] p = "local" -> 3
      [] p = "download" -> 4 [] OTHER -> 5

\* C17: a call removes at most one file, and only a cached file whose digest
\* mismatched, and starts at most one download; it never goes back to a step
\* it has left; and every call ends, by a return or by a panic.
C17_OneRecoveryAttemptThenEnd ==
    /\ [](/\ removed <= 1 /\ net_access <= 1
          /\ removed = 1 => (out0 # NoFile /\ CacheMiss(out0)))
    /\ [][ZkrRunning => ZkrRank(zkr_pc') > ZkrRank(zkr_pc)]_vars
    /\ (ZkrRunning ~> ZkrIdle)

\* the stale cached file was removed, and the one download brought a file
\* that failed the verification
C17_Witness ==
    /\ zkr_pc = "panicked" /\ removed = 1 /\ net_access = 1
    /\ remote # Unreachable /\ out_file = remote

-----------------------------------------------------------------------------
(* Properties of bootstrap_verifying_key, continued.                        *)

\* the text after the first declaration of pair i in text
AfterFirst(i, text) ==
    SubSeq(text, Find(rust_re(rust_constants[i]), text).end + 1, Len(text))

\* C20: when the source constant of a pair is found and the target text
\* holds no declaration of the target constant, the turn of the loop leaves
\* the text as it was, prints nothing and goes on; when the target text holds
\* more than one declaration, the first is rewritten and the text after it,
\* the other declarations included, stays as it was.
C20_NoTargetIsSilentFirstTargetOnly ==
    /\ (/\ TurnTaken /\ SourceFound(LastPair)
        /\ Find(rust_re(rust_constants[LastPair]), rust_before) = NoMatch) =>
          /\ rust_code = rust_before
          /\ printed = NotFoundLines(LastPair - 1)
    /\ (/\ TurnTaken /\ SourceFound(LastPair)
        /\ Find(rust_re(rust_constants[LastPair]), rust_before) # NoMatch
        /\ Find(rust_re(rust_constants[LastPair]),
                AfterFirst(LastPair, rust_before)) # NoMatch) =>
          LET m == Find(rust_re(rust_constants[LastPair]), rust_before)
          IN  rust_code = SubSeq(rust_before, 1, m.start - 1)
                          \o replacement(rust_constants[LastPair], SourceValue(LastPair))
                          \o AfterFirst(LastPair, rust_before)
    /\ pc = "panicked" => (vk_i = 0 \/ vk_i > NumConstants)

\* the first pair had no declaration in the target, the second had two
C20_Witness ==
    /\ TurnTaken /\ LastPair = 2 /\ SourceFound(1) /\ SourceFound(2)
    /\ Find(rust_re(rust_constants[1]), rust0) = NoMatch
    /\ Find(rust_re(rust_constants[2]), AfterFirst(2, rust_before)) # NoMatch
    /\ rust_code # rust_before

-----------------------------------------------------------------------------
(* Specifications: each program alone, the others at rest.                  *)

\* the xtask process is not looked at
GrIdle ==
    /\ pc = "none"
    /\ RISC0_WORK_DIR = FALSE
    /\ GrFresh

\* build.rs has not run
ZkrIdleInit ==
    /\ ZkrInit
    /\ DOCS_RS = FALSE /\ out_file = NoFile /\ src_file = NoFile /\ remote = Unreachable

\* bootstrap_verifying_key is not looked at
VkIdle ==
    /\ sol_file = <<>> /\ rust_file = <<>> /\ solidity_code = <<>>
    /\ rust_code = <<>> /\ rust_before = <<>> /\ rust0 = <<>>
    /\ vk_i = 0 /\ printed = <<>>

\* run has called nothing yet
RunFresh == calls = <<>> /\ fmt_runs = <<>>

Init == ZkrInit /\ GrIdle /\ VkIdle /\ CiIdle /\ RunFresh
SpecZkr == Init /\ [][NextZkr]_vars

\* build.rs is sequential code: a call that has started takes its next step
SpecZkrLive ==
    /\ Init /\ [][NextZkr]_vars
    /\ WF_vars(zkr_docs_rs) /\ WF_vars(zkr_cache)
    /\ WF_vars(zkr_local) /\ WF_vars(zkr_download)

InitReceipt == ZkrIdleInit /\ GrInit /\ VkIdle /\ CiIdle /\ RunFresh
SpecReceipt == InitReceipt /\ [][NextReceipt]_vars

\* bootstrap_verifying_key is about to be called
InitVk ==
    /\ ZkrIdleInit
    /\ pc = "vk_call" /\ RISC0_WORK_DIR = FALSE /\ GrFresh
    /\ VkInit /\ CiIdle /\ RunFresh
SpecVk == InitVk /\ [][NextVk]_vars

\* bootstrap_control_id is about to be called
InitControlId ==
    /\ ZkrIdleInit
    /\ pc = "ci_call" /\ RISC0_WORK_DIR = FALSE /\ GrFresh
    /\ VkIdle /\ CiInit /\ RunFresh
SpecControlId == InitControlId /\ [][NextControlId]_vars

\* run is about to be called, over one pair of files
RunSolidityFile == <<"/", "/", " ", "v", "k", "\n">> \o SolText([i \in Pairs |-> 1], 1)
RunRustFile == <<"u", "s", "e", " ", "x", ";", "\n">> \o RustText([i \in Pairs |-> 2], 1)
InitRun ==
    /\ ZkrIdleInit
    /\ pc = "run" /\ RISC0_WORK_DIR = FALSE /\ GrFresh
    /\ sol_file = RunSolidityFile /\ rust_file = RunRustFile
    /\ solidity_code = <<>> /\ rust_code = <<>> /\ rust_before = <<>>
    /\ rust0 = <<>> /\ vk_i = 0 /\ printed = <<>>
    /\ CiIdle /\ RunFresh
SpecRun == InitRun /\ [][NextRun]_vars

=============================================================================
